---- MODULE Spec2Model ----
(***************************************************************************)
(* Cache-freshness-and-refresh orchestration of the task assistant:        *)
(*   main.py          /chat handler, get_user_data_from_json, background   *)
(*                    refresh, chat sessions                               *)
(*   data_fetcher.py  fetch_user_data and its mood query, save_user_data,  *)
(*                    fetch_and_save_user, fetch_and_save_all_users        *)
(*   scheduler.py     clean_old_data, the main program and its two jobs    *)
(* The store is the directory user_data/ holding one JSON file per user.   *)
(***************************************************************************)
EXTENDS Integers, Sequences, FiniteSets, TLC

VARIABLES
    now,                \* wall clock, in seconds
    files,              \* user_data/<user_id>.json, per user
    background_tasks,   \* per user, the refreshes added with add_task and not yet run
    sent,               \* the prompt context of the last response sent
    last,               \* record of the operation that ran last
    wr,                 \* per concurrent refresh: its position in fetch_and_save_user
    rd,                 \* what the last get_user_data_from_json by a concurrent reader saw
    sw,                 \* the position of a concurrently running clean_old_data
    chat_sessions,      \* main.py's chat_sessions: per user, the Gemini chat session
    sched               \* scheduler.py's main program: its position and its jobs

vars == <<now, files, background_tasks, sent, last, wr, rd, sw, chat_sessions, sched>>

concVars == <<wr, rd, sw>>

svcVars == <<chat_sessions, sched>>

----------------------------------------------------------------------------
(* Bounds of the model *)

MaxFine == 1            \* the clock has instants base + 0..MaxFine seconds
MaxPending == 1         \* background refreshes of one user waiting to run

(* Program constants *)

FreshWindow == 600              \* main.py: (now - timestamp).total_seconds() > 600
SevenDays == 7 * 86400          \* scheduler.py: now - 7 * 86400

Users == {"u1", "u2"}

\* The instants the clock can show: the start and one freshness window later
\* where requests are followed, the start and one retention window later where
\* the sweep is followed, each with the MaxFine seconds that follow it.
FreshInstants == {base + a : base \in {0, FreshWindow}, a \in 0..MaxFine}
SweepInstants == {base + a : base \in {0, SevenDays}, a \in 0..MaxFine}
Instants == FreshInstants \cup SweepInstants

----------------------------------------------------------------------------
(* Snapshots and the provider *)

None == [status |-> "none"]
Corrupt == [status |-> "corrupt"]

\* What the Supabase queries of one fetch_user_data call can produce.
ProviderOutcomes ==
    { [ok |-> TRUE,  tasks |-> <<>>,     moods |-> <<>>],
      [ok |-> TRUE,  tasks |-> <<"t1">>, moods |-> <<"m1">>],
      [ok |-> FALSE, tasks |-> <<>>,     moods |-> <<>>] }

\* fetch_user_data: a success dict, or on any exception of the queries an
\* error dict; both carry timestamp = datetime.now() and are returned, never raised.
fetch_user_data(user_id, o, t) ==
    IF o.ok
    THEN [status |-> "success", timestamp |-> t, user_id |-> user_id,
          tasks |-> o.tasks, moods |-> o.moods]
    ELSE [status |-> "error", timestamp |-> t, user_id |-> user_id,
          error |-> "provider"]

----------------------------------------------------------------------------
(* Files *)

NoFile == [exists |-> FALSE]
Hole == [of |-> None, part |-> 0]

\* json.dump(data, f, indent=2) reaches the file in buffer flushes: one for a
\* small document, more for a large one.
Chunks(data) ==
    IF data.status = "success" /\ data.tasks # <<>> THEN 2 ELSE 1

json_dump(data) == [i \in 1..Chunks(data) |-> [of |-> data, part |-> i]]

\* json.load: the document if the bytes are exactly one complete document,
\* otherwise it raises (Corrupt).
json_load(content) ==
    IF /\ content # <<>>
       /\ content[1].part = 1
       /\ content[1].of # None
       /\ Len(content) = Chunks(content[1].of)
       /\ \A i \in 1..Len(content) : content[i] = [of |-> content[1].of, part |-> i]
    THEN content[1].of
    ELSE Corrupt

\* The entry a file holds, Corrupt if it holds none.
EntryOf(f) == IF f.exists THEN json_load(f.content) ELSE Corrupt

\* open(filepath, 'w'): creates the file or truncates it to length 0.
open_w(t) == [exists |-> TRUE, content |-> <<>>, mtime |-> t]

\* One write() of `cell` at the writer's own offset `off` (0-based).
write_at(f, off, cell, t) ==
    LET n == IF Len(f.content) > off + 1 THEN Len(f.content) ELSE off + 1
    IN [exists |-> TRUE,
        content |-> [i \in 1..n |->
                        IF i = off + 1 THEN cell
                        ELSE IF i <= Len(f.content) THEN f.content[i]
                        ELSE Hole],
        mtime |-> t]

RECURSIVE write_all(_, _, _, _)
write_all(f, cells, off, t) ==
    IF off >= Len(cells) THEN f
    ELSE write_all(write_at(f, off, cells[off + 1], t), cells, off + 1, t)

\* save_user_data run without interruption: open, dump, close.
save_user_data(fs, user_id, data, t) ==
    [fs EXCEPT ![user_id] = write_all(open_w(t), json_dump(data), 0, t)]

\* fetch_and_save_user: fetch at time t, then save whatever was fetched at time t2.
fetch_and_save_user(fs, user_id, o, t, t2) ==
    LET user_data == fetch_user_data(user_id, o, t)
    IN [user_id |-> user_id, status |-> user_data.status,
        data |-> user_data, files |-> save_user_data(fs, user_id, user_data, t2)]

----------------------------------------------------------------------------
(* main.py *)

\* Faulty variant of IsStale: an entry aged exactly one window taken as stale.
IsStale_inclusive(t, timestamp) == t - timestamp >= FreshWindow

IsStale(t, timestamp) == t - timestamp > FreshWindow

\* A timestamp string that is no ISO date, and what stands for "the parse raised".
BadStamp == 0 - 1
Unparsed == 0 - 1

\* Faulty variant of fromisoformat: a document without timestamp read as
\* written at the epoch.
fromisoformat_lenient(data) ==
    IF "timestamp" \in DOMAIN data THEN data.timestamp ELSE 0

\* datetime.fromisoformat(data.get("timestamp", "")): the instant the string
\* denotes; it raises on "" and on any string that is no ISO date.
fromisoformat(data) ==
    IF "timestamp" \in DOMAIN data /\ data.timestamp # BadStamp
    THEN data.timestamp
    ELSE Unparsed

\* get_user_data_from_json: None when the file is absent, when reading or
\* parsing raises, and when the entry is stale.
get_user_data_from_json(f, t) ==
    IF ~f.exists THEN None
    ELSE LET data == json_load(f.content)
         IN IF data = Corrupt THEN None
            ELSE IF fromisoformat(data) = Unparsed THEN None
            ELSE IF IsStale(t, fromisoformat(data)) THEN None
            ELSE data

\* The tasks_str / moods_str the prompt is built from.
Format(user_data) ==
    IF user_data.status = "success"
    THEN [tasks_str |-> IF user_data.tasks # <<>> THEN "list"
                        ELSE "No tasks scheduled for today.",
          moods_str |-> IF user_data.moods # <<>> THEN "list"
                        ELSE "No mood logs in the past 3 days."]
    ELSE [tasks_str |-> "Could not retrieve tasks at this time.",
          moods_str |-> "Could not retrieve mood logs at this time."]

\* Faulty variant of Scheduled: add_task outside the else branch.
Scheduled_always(cached) == 1

\* How many background refreshes the handler adds after the lookup.
Scheduled(cached) == IF cached # None THEN 1 ELSE 0

\* Faulty variant of SyncFetches: the synchronous fetch outside the if branch.
SyncFetches_always(cached) == 1

\* How many synchronous fetches the handler performs after the lookup.
SyncFetches(cached) == IF cached = None THEN 1 ELSE 0

NoReply == [tasks_str |-> "", moods_str |-> ""]

\* Every operation flips last.seq, so that a step of an operation shows.
Flip == 1 - last.seq

\* POST /chat for user_id, its path through the store with a file system
\* that works; o is what the provider answers if asked, d the seconds that
\* pass between the fetch and the file write.  The same handler with its chat
\* session, a failing file system and a failing Gemini API is chat_request.
chat(user_id, o, d) ==
    /\ now + d \in Instants
    /\ LET cached == get_user_data_from_json(files[user_id], now)
           n_sync == SyncFetches(cached)
           n_bg == Scheduled(cached)
           result == fetch_and_save_user(files, user_id, o, now, now + d)
           user_data == IF n_sync > 0 THEN result.data ELSE cached
       IN /\ n_sync = 0 => (d = 0 /\ o.ok /\ o.tasks = <<>>)
          /\ background_tasks[user_id] + n_bg <= MaxPending
          /\ files' = IF n_sync > 0 THEN result.files ELSE files
          /\ now' = IF n_sync > 0 THEN now + d ELSE now
          /\ background_tasks' =
                [background_tasks EXCEPT ![user_id] = @ + n_bg]
          /\ sent' = Format(user_data)
          /\ last' = [seq |-> Flip, op |-> "chat", user_id |-> user_id,
                      cached |-> cached, sync_fetches |-> n_sync,
                      scheduled |-> n_bg, user_data |-> user_data]
    /\ UNCHANGED <<concVars, svcVars>>

\* refresh_user_data_background, run by the framework after the response of
\* the request that added it has been sent; whatever fetch_and_save_user
\* raises is printed and dropped.
refresh_user_data_background(user_id, o, d) ==
    /\ background_tasks[user_id] > 0
    /\ now + d \in Instants
    /\ LET result == fetch_and_save_user(files, user_id, o, now, now + d)
       IN /\ files' = result.files
          /\ last' = [seq |-> Flip, op |-> "bg", user_id |-> user_id,
                      user_data |-> result.data]
    /\ now' = now + d
    /\ background_tasks' = [background_tasks EXCEPT ![user_id] = @ - 1]
    /\ UNCHANGED <<sent, concVars, svcVars>>

----------------------------------------------------------------------------
(* main.py, GET /refresh-data/{user_id} *)

\* refresh_data: fetch_and_save_user on demand; the result goes to the caller.
refresh_data(user_id, o, d) ==
    /\ now + d \in Instants
    /\ LET result == fetch_and_save_user(files, user_id, o, now, now + d)
       IN /\ files' = result.files
          /\ last' = [seq |-> Flip, op |-> "refresh", user_id |-> user_id,
                      user_data |-> result.data]
    /\ now' = now + d
    /\ UNCHANGED <<background_tasks, sent, concVars, svcVars>>

----------------------------------------------------------------------------
(* scheduler.py *)

\* Faulty variant of IsOld: a file exactly seven days old counted as old.
IsOld_inclusive(f, t) == f.mtime <= t - SevenDays

\* os.stat(file_path).st_mtime < now - 7 * 86400
IsOld(f, t) == f.mtime < t - SevenDays

\* Faulty variant of clean_loop: the loop is left after the first removal.
clean_loop_once(fs, order, i, t, bad) ==
    LET old == {k \in i..Len(order) : fs[order[k]].exists /\ IsOld(fs[order[k]], t)}
        k1 == CHOOSE k \in old : \A k2 \in old : k <= k2
    IN IF old = {} THEN [files |-> fs, error |-> FALSE, failed |-> {}]
       ELSE IF order[k1] \in bad
            THEN [files |-> fs, error |-> TRUE, failed |-> {order[k1]}]
            ELSE [files |-> [fs EXCEPT ![order[k1]] = NoFile], error |-> FALSE,
                  failed |-> {}]

\* The loop of clean_old_data over os.listdir's result `order`, from position i;
\* bad holds the users whose os.remove raises.  An exception leaves the loop
\* for the function's single except clause, which prints it.
RECURSIVE clean_loop(_, _, _, _, _)
clean_loop(fs, order, i, t, bad) ==
    IF i > Len(order) THEN [files |-> fs, error |-> FALSE, failed |-> {}]
    ELSE LET u == order[i]
         IN IF fs[u].exists /\ IsOld(fs[u], t)
            THEN IF u \in bad
                 THEN [files |-> fs, error |-> TRUE, failed |-> {u}]
                 ELSE clean_loop([fs EXCEPT ![u] = NoFile], order, i + 1, t, bad)
            ELSE clean_loop(fs, order, i + 1, t, bad)

Listed(fs) == {u \in Users : fs[u].exists}

\* The orders in which os.listdir may return the files.
Listings(fs) ==
    {s \in [1..Cardinality(Listed(fs)) -> Listed(fs)] :
        \A i, j \in DOMAIN s : i # j => s[i] # s[j]}

\* clean_old_data with now = time.time() taken once before the loop.
clean_old_data(order, bad) ==
    /\ order \in Listings(files)
    /\ bad \subseteq {u \in Listed(files) : IsOld(files[u], now)}
    /\ LET r == clean_loop(files, order, 1, now, bad)
       IN /\ files' = r.files
          /\ last' = [seq |-> Flip, op |-> "sweep", error |-> r.error,
                      failed |-> r.failed, at |-> now,
                      removed |-> {u \in Users : files[u].exists /\ ~r.files[u].exists},
                      repeats |-> /\ last.op = "sweep"
                                  /\ last.at = now
                                  /\ ~last.error
                                  /\ last.removed # {}]
    /\ UNCHANGED <<now, background_tasks, sent, concVars, svcVars>>

----------------------------------------------------------------------------
(* The clock *)

\* No refresh and no sweep is between two of its file operations.
Quiet ==
    /\ \A w \in DOMAIN wr : wr[w].pc \in {"idle", "closed"}
    /\ sw.pc \in {"idle", "done"}

\* Time passes: any span between operations, at most MaxFine seconds while
\* an operation is under way.
Tick(instants) ==
    /\ \E t \in instants :
          /\ t > now
          /\ Quiet \/ t - now <= MaxFine
          /\ now' = t
    /\ UNCHANGED <<files, background_tasks, sent, last, concVars, svcVars>>

----------------------------------------------------------------------------
(* Interleaved execution: the event loop, the threads that run the         *)
(* background tasks and the scheduler's processes work on the same files.  *)

\* The refreshes that may run at the same time (a synchronous one, a
\* background one, one of a bulk refresh), each a call of fetch_and_save_user
\* or of the same fetch-then-save pair in fetch_and_save_all_users.
Writers == {"w1", "w2"}

IdleWriter == [pc |-> "idle"]

\* user_data = fetch_user_data(user_id)
w_fetch(w, user_id, o) ==
    /\ wr[w].pc \in {"idle", "closed"}
    /\ wr' = [wr EXCEPT ![w] = [pc |-> "fetched", user_id |-> user_id,
                                data |-> fetch_user_data(user_id, o, now)]]
    /\ UNCHANGED <<now, files, rd, sw, background_tasks, sent, last, svcVars>>

\* save_user_data: open(filepath, 'w') creates or truncates the file.
w_open(w) ==
    /\ wr[w].pc = "fetched"
    /\ files' = [files EXCEPT ![wr[w].user_id] = open_w(now)]
    /\ wr' = [wr EXCEPT ![w] = [pc |-> "writing", user_id |-> @.user_id,
                                data |-> @.data, off |-> 0, unlinked |-> FALSE]]
    /\ UNCHANGED <<now, rd, sw, background_tasks, sent, last, svcVars>>

\* save_user_data: one flush of json.dump's output at the writer's offset; the
\* last one is followed by the close.  A file removed while open is written
\* to all the same, but no longer under its name.
w_write(w) ==
    /\ wr[w].pc = "writing"
    /\ LET u == wr[w].user_id
           cells == json_dump(wr[w].data)
           off == wr[w].off
       IN /\ files' = IF wr[w].unlinked THEN files
                       ELSE [files EXCEPT ![u] = write_at(@, off, cells[off + 1], now)]
          /\ wr' = [wr EXCEPT ![w] =
                        IF off + 1 = Len(cells)
                        THEN [pc |-> "closed", user_id |-> u, data |-> @.data,
                              unlinked |-> @.unlinked]
                        ELSE [@ EXCEPT !.off = off + 1]]
    /\ UNCHANGED <<now, rd, sw, background_tasks, sent, last, svcVars>>

\* get_user_data_from_json by a concurrent request: exists, open, json.load,
\* the freshness check.
r_read(user_id) ==
    /\ rd' = [done |-> TRUE, user_id |-> user_id,
              empty |-> files[user_id].exists /\ files[user_id].content = <<>>,
              intact |-> files[user_id].exists => EntryOf(files[user_id]) # Corrupt,
              none |-> get_user_data_from_json(files[user_id], now) = None]
    /\ UNCHANGED <<now, files, wr, sw, background_tasks, sent, last, svcVars>>

\* clean_old_data: now = time.time() and os.listdir(data_dir).
s_list(order) ==
    /\ sw.pc = "idle"
    /\ order \in Listings(files)
    /\ sw' = [pc |-> "check", t |-> now, order |-> order, i |-> 1, removed |-> {}]
    /\ UNCHANGED <<now, files, wr, rd, background_tasks, sent, last, svcVars>>

\* clean_old_data: the exists and isfile tests and the os.stat of one file.
s_check ==
    /\ sw.pc = "check"
    /\ sw' = IF sw.i > Len(sw.order) THEN [sw EXCEPT !.pc = "done"]
             ELSE IF files[sw.order[sw.i]].exists /\ IsOld(files[sw.order[sw.i]], sw.t)
                  THEN [sw EXCEPT !.pc = "remove"]
                  ELSE [sw EXCEPT !.i = @ + 1]
    /\ UNCHANGED <<now, files, wr, rd, background_tasks, sent, last, svcVars>>

\* clean_old_data: os.remove of the file found old.
s_remove ==
    /\ sw.pc = "remove"
    /\ LET u == sw.order[sw.i]
       IN /\ files' = [files EXCEPT ![u] = NoFile]
          /\ wr' = [w \in Writers |->
                        IF wr[w].pc = "writing" /\ wr[w].user_id = u
                        THEN [wr[w] EXCEPT !.unlinked = TRUE]
                        ELSE wr[w]]
          /\ sw' = [sw EXCEPT !.pc = "check", !.i = @ + 1,
                              !.removed = @ \cup {u}]
    /\ UNCHANGED <<now, rd, background_tasks, sent, last, svcVars>>

----------------------------------------------------------------------------
(* data_fetcher.py: a file system that may refuse, and the bulk refresh *)

\* What one call of save_user_data can meet: it completes, open() raises, or
\* json.dump raises after `done` of its flushes have reached the file.
SaveOutcomes ==
    { [at |-> "none"], [at |-> "open"],
      [at |-> "write", done |-> 0], [at |-> "write", done |-> 1] }

\* save_user_data under outcome sv: the files it leaves and whether it raised.
\* open(filepath, 'w') has truncated the file before any write can fail.
save_user_data_io(fs, user_id, data, t, sv) ==
    IF sv.at = "none"
    THEN [files |-> save_user_data(fs, user_id, data, t), raised |-> FALSE]
    ELSE IF sv.at = "open"
    THEN [files |-> fs, raised |-> TRUE]
    ELSE LET cells == json_dump(data)
             k == IF sv.done < Len(cells) THEN sv.done ELSE Len(cells) - 1
         IN [files |-> [fs EXCEPT ![user_id] =
                            write_all(open_w(t), SubSeq(cells, 1, k), 0, t)],
             raised |-> TRUE]

\* fetch_and_save_user under outcome sv of its save.
fetch_and_save_user_io(fs, user_id, o, t, t2, sv) ==
    LET user_data == fetch_user_data(user_id, o, t)
        saved == save_user_data_io(fs, user_id, user_data, t2, sv)
    IN [user_id |-> user_id, status |-> user_data.status, data |-> user_data,
        files |-> saved.files, raised |-> saved.raised]

\* item.get("user_id") of a row without user_id.
NoId == ""

\* The orders in which the loop may meet the members of the set user_ids.
Orders(S) ==
    {s \in [1..Cardinality(S) -> S] : \A i, j \in DOMAIN s : i # j => s[i] # s[j]}

\* The loop of fetch_and_save_all_users from position i of `order`; outs is
\* what the provider answers per user, svs what save_user_data meets per user.
\* An exception of save_user_data leaves the loop for the function's single
\* except clause, and {"error": ...} is returned in place of results.
RECURSIVE bulk_loop(_, _, _, _, _, _, _)
bulk_loop(fs, order, i, outs, svs, t, results) ==
    IF i > Len(order)
    THEN [files |-> fs, results |-> results, error |-> FALSE, failed |-> {}]
    ELSE LET user_id == order[i]
         IN IF user_id = NoId
            THEN bulk_loop(fs, order, i + 1, outs, svs, t, results)
            ELSE LET user_data == fetch_user_data(user_id, outs[user_id], t)
                     saved == save_user_data_io(fs, user_id, user_data, t,
                                                svs[user_id])
                 IN IF saved.raised
                    THEN [files |-> saved.files, results |-> <<>>,
                          error |-> TRUE, failed |-> {user_id}]
                    ELSE bulk_loop(saved.files, order, i + 1, outs, svs, t,
                                   Append(results,
                                          [user_id |-> user_id,
                                           status |-> user_data.status]))

\* The users a result list has an outcome for.
Outcomes(results) == {results[k].user_id : k \in DOMAIN results}

\* An input that is never read is given once, in one fixed form.
Unread(S, outs, svs) ==
    \A u \in Users \ S :
        outs[u] = [ok |-> TRUE, tasks |-> <<>>, moods |-> <<>>] /\ svs[u].at = "none"

\* What the provider answers per user in one bulk refresh: rows, here none,
\* or an exception.
BulkAnswers == [Users -> {o \in ProviderOutcomes : o.tasks = <<>>}]

\* What save_user_data meets per user in one bulk refresh; the first save
\* that raises ends the loop, so at most one does.
SaveInputs ==
    {svs \in [Users -> SaveOutcomes] :
        Cardinality({u \in Users : svs[u].at # "none"}) <= 1}

\* fetch_and_save_all_users: user_ids is the set the two enumerating queries
\* (Tasks, Mood_Logs) fill, enum_ok is FALSE if one of them raises.
fetch_and_save_all_users(user_ids, enum_ok, order, outs, svs) ==
    /\ ~enum_ok => user_ids = {}
    /\ order \in Orders(user_ids)
    /\ Unread(user_ids, outs, svs)
    /\ LET r == IF enum_ok
                THEN bulk_loop(files, order, 1, outs, svs, now, <<>>)
                ELSE [files |-> files, results |-> <<>>, error |-> TRUE,
                      failed |-> {}]
       IN /\ files' = r.files
          /\ last' = [seq |-> Flip, op |-> "bulk",
                      provider_ids |-> user_ids \ {NoId},
                      enum_ok |-> enum_ok,
                      results |-> r.results, error |-> r.error,
                      failed |-> r.failed]
    /\ UNCHANGED <<now, background_tasks, sent, concVars, svcVars>>

----------------------------------------------------------------------------
(* main.py: the whole /chat handler, with a file system and a Gemini API   *)
(* that may fail, and with the chat sessions                               *)

IdleLimit == 1800               \* main.py: time.time() - last_used > 1800

\* The instants at which sessions are followed.
SessionInstants ==
    {base + a : base \in {0, IdleLimit, 2 * IdleLimit}, a \in 0..MaxFine}

NoSession == [started |-> 0 - 1]

\* Faulty variant of Expired: a session idle for exactly the limit replaced.
Expired_inclusive(t, last_used) == t - last_used >= IdleLimit

Expired(t, last_used) == t - last_used > IdleLimit

\* Lines 146-157: the session the request uses, after chat.last_used is set.
\* Every session in chat_sessions has last_used, set by the request that
\* created it, so hasattr(..., 'last_used') holds.
session_for(sessions, user_id, t) ==
    LET s == sessions[user_id]
    IN IF s = NoSession THEN [started |-> t, last_used |-> t]
       ELSE IF Expired(t, s.last_used) THEN [started |-> t, last_used |-> t]
       ELSE [started |-> s.started, last_used |-> t]

\* What user_data becomes in the except clause of the synchronous refresh.
ErrorData == [status |-> "error", tasks |-> <<>>, moods |-> <<>>]

\* Faulty variant of sync_refresh: no try around fetch_and_save_user.
sync_refresh_unguarded(fs, user_id, o, t, t2, sv) ==
    LET result == fetch_and_save_user_io(fs, user_id, o, t, t2, sv)
    IN [files |-> result.files, user_data |-> result.data,
        propagated |-> result.raised]

\* Lines 103-112: fetch_and_save_user inside try; whatever it raises is
\* printed and replaced by ErrorData.
sync_refresh(fs, user_id, o, t, t2, sv) ==
    LET result == fetch_and_save_user_io(fs, user_id, o, t, t2, sv)
    IN [files |-> result.files,
        user_data |-> IF result.raised THEN ErrorData ELSE result.data,
        propagated |-> FALSE]

\* POST /chat for user_id, the whole handler: o is what the provider answers
\* if asked, d the seconds between the fetch and the file write, sv what
\* save_user_data meets, g whether chat.send_message returns.
chat_request(user_id, o, d, sv, g) ==
    /\ now + d \in Instants \cup SessionInstants
    /\ LET cached == get_user_data_from_json(files[user_id], now)
           n_sync == SyncFetches(cached)
           n_bg == Scheduled(cached)
           r == sync_refresh(files, user_id, o, now, now + d, sv)
           user_data == IF n_sync > 0 THEN r.user_data ELSE cached
           propagated == n_sync > 0 /\ r.propagated
           t2 == IF n_sync > 0 THEN now + d ELSE now
       IN /\ n_sync = 0 => (d = 0 /\ o.ok /\ o.tasks = <<>> /\ sv.at = "none")
          /\ background_tasks[user_id] + n_bg <= MaxPending
          /\ files' = IF n_sync > 0 THEN r.files ELSE files
          /\ now' = t2
          /\ background_tasks' =
                [background_tasks EXCEPT ![user_id] = @ + n_bg]
          /\ chat_sessions' =
                IF propagated THEN chat_sessions
                ELSE [chat_sessions EXCEPT
                        ![user_id] = session_for(chat_sessions, user_id, t2)]
          /\ sent' = IF propagated THEN NoReply ELSE Format(user_data)
          /\ last' = [seq |-> Flip, op |-> "request", user_id |-> user_id,
                      cached |-> cached, sync_fetches |-> n_sync,
                      scheduled |-> n_bg, user_data |-> user_data,
                      provider_ok |-> o.ok, save_at |-> sv.at,
                      replaced_bad |-> /\ files[user_id].exists
                                       /\ cached = None
                                       /\ \/ json_load(files[user_id].content) = Corrupt
                                          \/ fromisoformat(json_load(files[user_id].content)) = Unparsed,
                      idle |-> IF chat_sessions[user_id] = NoSession THEN 0 - 1
                               ELSE t2 - chat_sessions[user_id].last_used,
                      reply |-> IF propagated THEN "none"
                                ELSE IF g THEN "response.text"
                                ELSE "I'm having trouble connecting"]
    /\ UNCHANGED <<concVars, sched>>

\* Documents that json.load accepts and that carry no usable timestamp.
BadDocuments ==
    { [status |-> "success", tasks |-> <<>>, moods |-> <<>>],
      [status |-> "success", timestamp |-> BadStamp, tasks |-> <<>>, moods |-> <<>>] }

\* Something other than save_user_data leaves user_data/<user_id>.json
\* holding doc.
foreign_file(user_id, doc) ==
    /\ files' = [files EXCEPT ![user_id] =
                    [exists |-> TRUE, content |-> <<[of |-> doc, part |-> 1]>>,
                     mtime |-> now]]
    /\ last' = [seq |-> Flip, op |-> "foreign", user_id |-> user_id]
    /\ UNCHANGED <<now, background_tasks, sent, concVars, svcVars>>

----------------------------------------------------------------------------
(* data_fetcher.py: the mood query of fetch_user_data *)

MaxMoods == 7                   \* rows of one user in Mood_Logs
MoodDays == 3                   \* timedelta(days=3)
MoodLimit == 5                  \* .limit(5)

\* Days are numbered; today is the last, and one day lies before
\* three_days_ago.
Today == MoodDays + 1

three_days_ago(today) == today - MoodDays

\* The Mood_Logs rows of one user, each given by the day of its created_at;
\* a row's position is its identity.
MoodTables ==
    {rows \in UNION {[1..n -> 0..Today] : n \in 0..MaxMoods} :
        \A i, j \in DOMAIN rows : i <= j => rows[i] <= rows[j]}

\* Faulty variant of Recent: the day three days ago left out.
Recent_exclusive(created_at, since) == created_at > since

\* .gte("created_at", three_days_ago_str)
Recent(created_at, since) == created_at >= since

\* .order("created_at", desc=True).limit(k) over the rows S: every result
\* the query may give, rows of equal created_at coming in any order.
RECURSIVE order_limit(_, _, _)
order_limit(S, rows, k) ==
    IF S = {} \/ k = 0 THEN {<<>>}
    ELSE LET newest == {i \in S : \A j \in S : rows[j] <= rows[i]}
         IN UNION {{<<m>> \o s : s \in order_limit(S \ {m}, rows, k - 1)} :
                        m \in newest}

\* mood_res.data: the rows the mood query of fetch_user_data may return.
mood_query(rows, today) ==
    order_limit({i \in DOMAIN rows : Recent(rows[i], three_days_ago(today))},
                rows, MoodLimit)

\* One fetch_user_data whose queries succeed, over any table of mood rows; it
\* reads nothing the program has written, and is followed from the start.
fetch_moods(user_id) ==
    /\ last.op = "init"
    /\ \E rows \in MoodTables :
          \E moods \in mood_query(rows, Today) :
             last' = [seq |-> Flip, op |-> "moods", rows |-> rows,
                      user_data |-> fetch_user_data(user_id,
                                        [ok |-> TRUE, tasks |-> <<>>, moods |-> moods],
                                        now)]
    /\ UNCHANGED <<now, files, background_tasks, sent, concVars, svcVars>>

----------------------------------------------------------------------------
(* scheduler.py: the main program *)

RefreshEvery == 30 * 60         \* schedule.every(30).minutes
OneDay == 24 * 3600             \* schedule.every().day
PollEvery == 60                 \* time.sleep(60)

\* The scheduler is followed over two days.
SchedHorizon == 2 * OneDay + PollEvery

NotStarted == [pc |-> "start"]

\* The next 00:00 after t; the clock shows 0 at a midnight.
NextMidnight(t) == (t \div OneDay + 1) * OneDay

\* One run of refresh_all_users: the subprocess runs fetch_and_save_all_users
\* to its end; here the provider enumerates every user and answers every query.
job_refresh(fs, t) ==
    bulk_loop(fs, CHOOSE s \in Orders(Users) : TRUE, 1,
              [u \in Users |-> [ok |-> TRUE, tasks |-> <<>>, moods |-> <<>>]],
              [u \in Users |-> [at |-> "none"]], t, <<>>).files

\* One run of clean_old_data with a file system that removes what it is asked to.
job_sweep(fs, t) ==
    clean_loop(fs, CHOOSE s \in Listings(fs) : TRUE, 1, t, {}).files

\* The files after the jobs in `jobs` have run at time t, the refresh first
\* if refresh_first.
run_jobs(fs, jobs, t, refresh_first) ==
    LET r(f) == IF "refresh" \in jobs THEN job_refresh(f, t) ELSE f
        c(f) == IF "sweep" \in jobs THEN job_sweep(f, t) ELSE f
    IN IF refresh_first THEN c(r(fs)) ELSE r(c(fs))

\* Faulty variant of StartupJobs: the sweep is called at start as well.
StartupJobs_both == {"refresh", "sweep"}

\* Line 65: what is called once before the loop.
StartupJobs == {"refresh"}

\* Lines 57-61: the two jobs are registered; schedule fixes their first
\* next_run at registration.
sched_register ==
    /\ sched.pc = "start"
    /\ sched' = [pc |-> "startup", next_refresh |-> now + RefreshEvery,
                 next_sweep |-> NextMidnight(now), iterations |-> 0, sweeps |-> 0]
    /\ last' = [seq |-> Flip, op |-> "register"]
    /\ UNCHANGED <<now, files, background_tasks, sent, concVars, chat_sessions>>

\* Line 65: refresh_all_users() called directly; subprocess.run returns when
\* the refresh has ended, d seconds later.
sched_startup(d) ==
    /\ sched.pc = "startup"
    /\ files' = run_jobs(files, StartupJobs, now, TRUE)
    /\ now' = now + d
    /\ sched' = [sched EXCEPT !.pc = "pending"]
    /\ last' = [seq |-> Flip, op |-> "startup", ran |-> StartupJobs, at |-> now]
    /\ UNCHANGED <<background_tasks, sent, concVars, chat_sessions>>

\* Line 69: schedule.run_pending() runs every job with next_run <= now, in the
\* order of their next_run, and gives each job it ran its next next_run.
run_pending ==
    /\ sched.pc = "pending"
    /\ LET due == {j \in {"refresh", "sweep"} :
                    now >= (IF j = "refresh" THEN sched.next_refresh
                            ELSE sched.next_sweep)}
       IN /\ files' = run_jobs(files, due, now,
                               sched.next_refresh <= sched.next_sweep)
          /\ sched' = [pc |-> "sleep",
                       next_refresh |-> IF "refresh" \in due THEN now + RefreshEvery
                                        ELSE sched.next_refresh,
                       next_sweep |-> IF "sweep" \in due THEN NextMidnight(now)
                                      ELSE sched.next_sweep,
                       iterations |-> IF sched.iterations = 0 THEN 1 ELSE 2,
                       sweeps |-> sched.sweeps + (IF "sweep" \in due THEN 1 ELSE 0)]
          /\ last' = [seq |-> Flip, op |-> "run_pending", ran |-> due, at |-> now]
    /\ UNCHANGED <<now, background_tasks, sent, concVars, chat_sessions>>

\* Line 70: time.sleep(60).
sched_sleep ==
    /\ sched.pc = "sleep"
    /\ now + PollEvery <= SchedHorizon
    /\ now' = now + PollEvery
    /\ sched' = [sched EXCEPT !.pc = "pending"]
    /\ UNCHANGED <<files, background_tasks, sent, last, concVars, chat_sessions>>

----------------------------------------------------------------------------

Init ==
    /\ now = 0
    /\ files = [u \in Users |-> NoFile]
    /\ background_tasks = [u \in Users |-> 0]
    /\ sent = NoReply
    /\ last = [seq |-> 0, op |-> "init"]
    /\ wr = [w \in Writers |-> IdleWriter]
    /\ rd = [done |-> FALSE]
    /\ sw = [pc |-> "idle"]
    /\ chat_sessions = [u \in Users |-> NoSession]
    /\ sched = NotStarted

\* Requests and their background refreshes, each run without interruption.
Next ==
    \/ Tick(FreshInstants)
    \/ \E u \in Users, o \in ProviderOutcomes, d \in 0..MaxFine : chat(u, o, d)
    \/ \E u \in Users, o \in ProviderOutcomes, d \in 0..MaxFine :
          refresh_user_data_background(u, o, d)

Spec == Init /\ [][Next]_vars

\* Refreshes and the sweep, each run without interruption.
NextSweep ==
    \/ Tick(SweepInstants)
    \/ \E u \in Users, o \in ProviderOutcomes, d \in 0..MaxFine : refresh_data(u, o, d)
    \/ \E order \in Listings(files), bad \in SUBSET Users : clean_old_data(order, bad)

SpecSweep == Init /\ [][NextSweep]_vars

\* Two refreshes and a reader, interleaved at their file operations.
NextConc ==
    \/ \E w \in Writers, u \in Users, o \in ProviderOutcomes : w_fetch(w, u, o)
    \/ \E w \in Writers : w_open(w)
    \/ \E w \in Writers : w_write(w)
    \/ \E u \in Users : r_read(u)

SpecConc == Init /\ [][NextConc]_vars

\* One refresh and the sweep, interleaved at their file operations.
NextRace ==
    \/ Tick(SweepInstants)
    \/ \E u \in Users, o \in ProviderOutcomes : w_fetch("w1", u, o)
    \/ w_open("w1")
    \/ w_write("w1")
    \/ \E order \in Listings(files) : s_list(order)
    \/ s_check
    \/ s_remove

SpecRace == Init /\ [][NextRace]_vars

\* Bulk refreshes, each run without interruption.
NextBulk ==
    \/ Tick(FreshInstants)
    \/ \E user_ids \in SUBSET (Users \cup {NoId}), enum_ok \in BOOLEAN :
          \E order \in Orders(user_ids), outs \in BulkAnswers, svs \in SaveInputs :
                fetch_and_save_all_users(user_ids, enum_ok, order, outs, svs)

SpecBulk == Init /\ [][NextBulk]_vars

\* The user whose requests are followed where the handler is taken whole: it
\* reads and writes this user's file, session and pending refreshes only.
Callers == {"u1"}

\* The instants at which failures are followed: entries written at the first
\* are stale at the second.
FaultInstants == {0, FreshWindow + 1}

\* Requests under failing file system and Gemini API, and files left in
\* user_data/ by others.
NextFaults ==
    \/ Tick(FaultInstants)
    \/ \E u \in Callers, o \in ProviderOutcomes, sv \in SaveOutcomes, g \in BOOLEAN :
          chat_request(u, o, 0, sv, g)
    \/ \E u \in Callers, o \in ProviderOutcomes : refresh_user_data_background(u, o, 0)
    \/ \E u \in Callers, doc \in BadDocuments : foreign_file(u, doc)

SpecFaults == Init /\ [][NextFaults]_vars

\* Requests over the life of a chat session.
NextSession ==
    \/ Tick(SessionInstants)
    \/ \E u \in Callers, o \in ProviderOutcomes, g \in BOOLEAN :
          chat_request(u, o, 0, [at |-> "none"], g)
    \/ \E u \in Callers, o \in ProviderOutcomes : refresh_user_data_background(u, o, 0)

SpecSession == Init /\ [][NextSession]_vars

\* The scheduler process.
NextSched ==
    \/ sched_register
    \/ \E d \in 0..MaxFine : sched_startup(d)
    \/ run_pending
    \/ sched_sleep

SpecSched == Init /\ [][NextSched]_vars

\* Fetches over every table of mood rows.
NextMoods ==
    \E u \in Callers : fetch_moods(u)

SpecMoods == Init /\ [][NextMoods]_vars

----------------------------------------------------------------------------
(* What the claims speak of *)

\* The entry of f exists and is at most one freshness window old at time t.
FreshEntry(f, t) ==
    EntryOf(f) # Corrupt /\ t - EntryOf(f).timestamp <= FreshWindow

\* A step of the named operation.
StepOf(op) == last'.seq # last.seq /\ last'.op = op

----------------------------------------------------------------------------
(* Claims on requests: Spec *)

C2_FreshPath ==
    [][/\ (StepOf("chat") /\ FreshEntry(files[last'.user_id], now)) =>
            LET u == last'.user_id
            IN /\ last'.user_data = EntryOf(files[u])
               /\ sent' = Format(EntryOf(files[u]))
               /\ last'.sync_fetches = 0
               /\ files' = files
               /\ last'.scheduled = 1
               /\ background_tasks' = [background_tasks EXCEPT ![u] = @ + 1]
       /\ StepOf("bg") =>
            LET u == last'.user_id
            IN /\ sent' = sent
               /\ background_tasks' = [background_tasks EXCEPT ![u] = @ - 1]
               /\ last'.user_data.timestamp = now
               /\ files'[u].exists
               /\ files'[u].content = json_dump(last'.user_data)
               /\ \A v \in Users \ {u} : files'[v] = files[v]]_vars

\* C2 witness: a fresh entry was served and its background refresh is waiting.
C2_Witness ==
    /\ last.op = "chat"
    /\ last.cached # None
    /\ last.user_data = last.cached
    /\ background_tasks[last.user_id] = 1
    /\ sent = Format(last.cached)

\* C3: a /chat request that finds no fresh entry and whose provider fetch
\* succeeds performs one synchronous fetch, leaves in the store the fetched
\* Success snapshot with timestamp equal to the fetch time, answers from that
\* snapshot (also when tasks and moods are empty) and adds no background refresh.
C3_StalePathSuccess ==
    [][(/\ StepOf("chat")
        /\ ~FreshEntry(files[last'.user_id], now)
        /\ last'.user_data.status = "success") =>
            LET u == last'.user_id
            IN /\ last'.sync_fetches = 1
               /\ EntryOf(files'[u]) = last'.user_data
               /\ last'.user_data.timestamp = now
               /\ sent' = Format(last'.user_data)
               /\ last'.scheduled = 0
               /\ background_tasks' = background_tasks]_vars

\* C3 witness: a synchronous refresh stored and answered a Success snapshot
\* with no tasks and no moods.
C3_Witness ==
    /\ last.op = "chat"
    /\ last.sync_fetches = 1
    /\ last.user_data.status = "success"
    /\ last.user_data.tasks = <<>>
    /\ last.user_data.moods = <<>>
    /\ EntryOf(files[last.user_id]) = last.user_data
    /\ sent.tasks_str = "No tasks scheduled for today."

\* C4: when the provider fails during the synchronous refresh of /chat, the
\* Error snapshot is returned and not persisted: the store entry of the user
\* is the same after the request as before it.
C4_SyncErrorNotPersisted ==
    [][(/\ StepOf("chat")
        /\ last'.sync_fetches = 1
        /\ last'.user_data.status = "error") =>
            files'[last'.user_id] = files[last'.user_id]]_vars

\* C5: when the provider fails during a background refresh, the entry cached
\* before stays in the store unchanged, and a read within its freshness window
\* still returns it.
C5_BackgroundErrorKeepsEntry ==
    [][(StepOf("bg") /\ last'.user_data.status = "error") =>
            LET u == last'.user_id
            IN /\ files'[u] = files[u]
               /\ FreshEntry(files[u], now') =>
                    get_user_data_from_json(files'[u], now') = EntryOf(files[u])]_vars

----------------------------------------------------------------------------
(* Claims on the sweep: SpecSweep *)

C10_SweepContinuesAfterError ==
    [][StepOf("sweep") =>
        \A u \in Users \ last'.failed :
            (files[u].exists /\ now - files[u].mtime > SevenDays) =>
                ~files'[u].exists]_vars

----------------------------------------------------------------------------
(* Claims on interleavings: SpecConc, SpecRace *)

\* C6: two concurrent refreshes of one user that both succeed leave the file
\* equal to exactly one of the two snapshots written, in every interleaving
\* of their open, truncate and write steps.
C6_OneOfTwoSnapshots ==
    \A a, b \in Writers :
        (/\ a # b
         /\ wr[a].pc = "closed" /\ wr[b].pc = "closed"
         /\ wr[a].user_id = wr[b].user_id
         /\ wr[a].data.status = "success" /\ wr[b].data.status = "success") =>
            EntryOf(files[wr[a].user_id]) \in {wr[a].data, wr[b].data}

\* C7: whatever save_user_data is doing, get_user_data_from_json finds the
\* file absent or holding one complete entry, never empty, truncated or
\* half-written.
C7_ReaderSeesCompleteEntry == rd.done => rd.intact

\* C9: in every interleaving of clean_old_data with a refresh, the file the
\* sweep removes was last written more than 7 days ago at the time of the
\* removal, so no completed refresh is lost to the sweep.
C9_SweepRemovesOnlyOld ==
    [][(sw.pc = "remove" /\ sw'.pc # "remove") =>
            now - files[sw.order[sw.i]].mtime > SevenDays]_vars

----------------------------------------------------------------------------
(* Further claims on the sweep: SpecSweep *)

\* C11: at a fixed time, a run of clean_old_data that directly follows a run
\* without error, with no write in between, leaves the store as the first run
\* left it, whatever order os.listdir gives and whatever os.remove would do.
C11_SweepIdempotent ==
    [][(/\ StepOf("sweep")
        /\ last.op = "sweep" /\ ~last.error /\ last.at = now) =>
            /\ files' = files
            /\ last'.removed = {}
            /\ ~last'.error]_vars

\* C11 witness: a second run has followed, at the same time, a run that
\* removed an entry.
C11_Witness ==
    /\ last.op = "sweep"
    /\ last.repeats
    /\ \E u \in Users : ~files[u].exists

----------------------------------------------------------------------------
(* Claims on the bulk refresh: SpecBulk *)

\* C12: a bulk refresh refreshes and stores every user_id in the union of the
\* ids in the store and the ids the provider enumerates; a user that has a
\* store entry but is not enumerated by the provider is still refreshed.
C12_BulkCoversStoreAndProvider ==
    [][(StepOf("bulk") /\ ~last'.error) =>
        \A u \in Listed(files) \cup last'.provider_ids :
            /\ u \in Outcomes(last'.results)
            /\ EntryOf(files'[u]) # Corrupt
            /\ EntryOf(files'[u]).timestamp = now]_vars

\* C13: a failure on one user, of the provider or of the store write, does
\* not abort a bulk refresh: every other user of the batch is fetched and
\* stored, and the result holds one outcome per user.
C13_BulkNotAborted ==
    [][(StepOf("bulk") /\ last'.enum_ok) =>
        /\ \A u \in last'.provider_ids \ last'.failed :
                /\ EntryOf(files'[u]) # Corrupt
                /\ EntryOf(files'[u]).timestamp = now
        /\ \A u \in last'.provider_ids :
                Cardinality({k \in DOMAIN last'.results :
                                last'.results[k].user_id = u}) = 1]_vars

----------------------------------------------------------------------------
(* Claims on the whole handler: SpecFaults, SpecSession *)

\* The prompt context of a request whose snapshot is not Success-status.
CouldNotRetrieve ==
    [tasks_str |-> "Could not retrieve tasks at this time.",
     moods_str |-> "Could not retrieve mood logs at this time."]

\* C14: a /chat request returns a reply for every provider outcome, every
\* outcome of the store write of its synchronous refresh and every outcome of
\* the Gemini call; the prompt has the 'Could not retrieve' placeholders
\* exactly when the snapshot it answers from is not Success-status.
C14_ChatAlwaysReplies ==
    [][StepOf("request") =>
        /\ last'.reply \in {"response.text", "I'm having trouble connecting"}
        /\ sent' = Format(last'.user_data)
        /\ (last'.user_data.status # "success") <=> (sent' = CouldNotRetrieve)
        /\ (last'.sync_fetches = 1 /\ (~last'.provider_ok \/ last'.save_at # "none")) =>
                sent' = CouldNotRetrieve]_vars

\* C14 witness: the provider answered, the store write of the synchronous
\* refresh raised, and the request was answered with the placeholders.
C14_Witness ==
    /\ last.op = "request"
    /\ last.sync_fetches = 1
    /\ last.provider_ok
    /\ last.save_at = "write"
    /\ last.reply = "response.text"
    /\ sent = CouldNotRetrieve
    /\ EntryOf(files[last.user_id]) = Corrupt

BadFile(f) ==
    /\ f.exists
    /\ \/ EntryOf(f) = Corrupt
       \/ "timestamp" \notin DOMAIN EntryOf(f)
       \/ EntryOf(f).timestamp = BadStamp

\* C19: a file that cannot be parsed or has no well-formed timestamp is
\* treated like an absent one: the lookup gives None, the request performs a
\* synchronous refresh and adds no background refresh, the bad document is
\* not what the request answers from, and when fetch and save succeed the file
\* holds the fetched well-formed entry afterwards.
C19_BadFileLikeAbsent ==
    [][(StepOf("request") /\ BadFile(files[last'.user_id])) =>
        LET u == last'.user_id
        IN /\ last'.cached = get_user_data_from_json(NoFile, now)
           /\ last'.cached = None
           /\ last'.sync_fetches = 1
           /\ last'.scheduled = 0
           /\ last'.reply # "none"
           /\ last'.user_data # EntryOf(files[u])
           /\ (last'.provider_ok /\ last'.save_at = "none") =>
                /\ EntryOf(files'[u]) = last'.user_data
                /\ ~BadFile(files'[u])
                /\ last'.user_data.status = "success"
                /\ last'.user_data.timestamp = now
                /\ sent' = Format(last'.user_data)]_vars

\* C19 witness: a file left truncated by a failed write, or holding a
\* document without timestamp, has been replaced by a request's refresh.
C19_Witness ==
    /\ last.op = "request"
    /\ last.sync_fetches = 1
    /\ last.provider_ok
    /\ last.save_at = "none"
    /\ EntryOf(files[last.user_id]) = last.user_data
    /\ last.replaced_bad

----------------------------------------------------------------------------
(* Further claims on requests: Spec *)

\* C17: after a provider failure on the not-fresh path, the next /chat request
\* of the same user within the freshness window finds no fresh entry and
\* performs a synchronous fetch again.
C17_RetryAfterFailure ==
    [][(/\ StepOf("chat")
        /\ last.op = "chat"
        /\ last.user_id = last'.user_id
        /\ last.sync_fetches = 1
        /\ last.user_data.status = "error"
        /\ now - last.user_data.timestamp <= FreshWindow) =>
            /\ last'.cached = None
            /\ last'.sync_fetches = 1]_vars

----------------------------------------------------------------------------
(* Claims on the scheduler: SpecSched *)

\* The time of the refresh that wrote the entries the store holds.
LastRefresh == EntryOf(files["u1"]).timestamp

\* C15: the scheduler runs one full refresh, and no sweep, to its end at
\* start before the first iteration of its loop; in the loop a refresh runs
\* at the first poll 30 minutes or more after registration or after the last
\* refresh of the loop, and the sweep at the first poll after each midnight,
\* once per day.
C15_SchedulerRuns ==
    [][/\ StepOf("startup") =>
            /\ sched.iterations = 0
            /\ last'.ran = {"refresh"}
            /\ sched'.sweeps = 0
            /\ \A u \in Users : EntryOf(files'[u]) # Corrupt
            /\ \A u \in Users : EntryOf(files'[u]).timestamp = now
       /\ StepOf("run_pending") =>
            /\ last.op \in {"startup", "run_pending"}
            /\ "refresh" \in last'.ran <=> now >= sched.next_refresh
            /\ "refresh" \in last'.ran =>
                    /\ now - LastRefresh >= RefreshEvery
                    /\ now - LastRefresh < RefreshEvery + PollEvery
                    /\ \A u \in Users : EntryOf(files'[u]).timestamp = now
            /\ "refresh" \notin last'.ran =>
                    /\ now - LastRefresh < RefreshEvery + PollEvery
                    /\ files' = files
            /\ "sweep" \in last'.ran <=> now >= sched.next_sweep
            /\ "sweep" \in last'.ran =>
                    /\ now >= OneDay
                    /\ now % OneDay < PollEvery
            /\ sched'.sweeps = now \div OneDay]_vars

\* C15 witness: the loop has just run the sweep for the second time, two
\* midnights after the start, together with a refresh.
C15_Witness ==
    /\ last.op = "run_pending"
    /\ last.ran = {"refresh", "sweep"}
    /\ sched.sweeps = 2
    /\ now \div OneDay = 2
    /\ \A u \in Users : EntryOf(files[u]).timestamp = now

----------------------------------------------------------------------------
(* Claims on the mood query: SpecMoods *)

\* The rows of the last fetch that lie within the bound.
Within == {i \in DOMAIN last.rows : last.rows[i] >= Today - MoodDays}

====
